---- MODULE Spec2Model ----
(***************************************************************************)
(* Model of backend/src/agent/key_manager.py: GeminiKeyManager, a          *)
(* round-robin pool of API keys with permanent disablement on failure.     *)
(*                                                                         *)
(* Each caller thread executes run_with_key.  The pool lock is a variable: *)
(* entering a `with self._lock` block is one step, the block's body with   *)
(* the release at its end is the next.  Steps that touch no shared state   *)
(* (the for-loop head, errors.append, continue, return) are merged with    *)
(* the neighbouring step of the same thread.                               *)
(***************************************************************************)
EXTENDS Integers, Sequences, FiniteSets, TLC

\* ---- bounds ----
MaxKeys == 3        \* pools of 1..MaxKeys keys
NumCallers == 2     \* threads calling run_with_key
MaxRuns == 2        \* run_with_key calls in all, concurrent specification
MaxRunsSeq == 4     \* run_with_key calls of the single thread of SpecSeq
MaxAccesses == 3    \* get_key_manager / initialize_key_manager calls in all
MaxKeyLen == 11     \* secrets of 1..MaxKeyLen characters

Callers == 1 .. NumCallers

\* What time.time() returns.  Timestamps are written and reported, never
\* read by the pool's operations: the model does not tell instants apart,
\* a timestamp field is either None or Now.
Now == 0

\* Python's None, for optional indexes and timestamps (both >= 0).
None == -1

\* No thread holds the lock.
Free == 0

VARIABLES
    total,            \* len(self._records), fixed at construction
    records,          \* self._records: index -> GeminiKeyRecord
    next_index,       \* self._next_index
    last_used_index,  \* self._last_used_index
    lock,             \* holder of self._lock, or Free
    pc,               \* per thread: position inside run_with_key
    iter,             \* per thread: iterations of the for loop started
    index,            \* per thread: local `index`
    now,              \* per thread: local `now` of _record_success/_failure
    errors,           \* per thread: local `errors`
    result,           \* per thread: value the last call returned (the key)
    outcome,          \* per thread: how the last call ended
    raised,           \* per thread: class of the last exception fn raised
    runsLeft,         \* calls still to be made, by any thread
    attempts,         \* history, per thread: the indexes the call gave to fn
    startCursor,      \* history (SpecSeq): self._next_index when the call began
    startDisabled,    \* history (SpecSeq): the disabled keys at that moment
    startSuccess,     \* history (SpecSeq): each key's success_count then
    callLog,          \* history (SpecSeq): the finished calls, in order
    selLog,           \* history: the selections made while no key is disabled
    environ,          \* the keys the environment variables hold ("" = none)
    manager,          \* the module global _manager: an instance or None
    manager_lock,     \* holder of _manager_lock, or Free
    built,            \* history: keys of the instances constructed, in order
    spc,              \* per thread: position in the singleton accessors
    sop,              \* per thread: the accessor called, "get" or "init"
    sarg,             \* per thread: keys argument of initialize_key_manager
    sres,             \* per thread: the instance the last accessor returned
    sout,             \* per thread: how the last accessor call ended
    accessesLeft,     \* accessor calls still to be made, by any thread
    raw_key,          \* GeminiKeyRecord.raw_key of one record, as characters
    masked_key,       \* GeminiKeyRecord.masked_key of that record
    maskedKey         \* the "maskedKey" get_statuses last reported for it

poolVars == << total, records, next_index, last_used_index >>
threadVars ==
    << pc, iter, index, now, errors, result, outcome, raised, attempts >>
histVars == << startCursor, startDisabled, startSuccess, callLog >>
singletonVars == << environ, manager, manager_lock, built, spc, sop, sarg,
                   sres, sout, accessesLeft >>
maskVars == << raw_key, masked_key, maskedKey >>
auxVars == << singletonVars, maskVars >>
vars == << poolVars, lock, threadVars, runsLeft, histVars, selLog, auxVars >>

Indexes == 0 .. (total - 1)

\* ---- GeminiKeyRecord ----
\* raw_key is identified with the record's index; masked_key is derived
\* from it once and never read by the operations modelled here.
GeminiKeyRecord ==
    [ status |-> "idle", disabled |-> FALSE, last_error |-> None,
      last_used_at |-> None, last_success_at |-> None,
      last_failure_at |-> None, success_count |-> 0, failure_count |-> 0,
      last_used |-> FALSE ]

\* The exception fn raises for key i, and str() of an exception.
Exc(i) == i
Str(e) == 100 + e

\* ---- _activate_next_index: the scan ----
\* Mutant: the scan returns the record at the cursor, disabled or not.
ScanNoSkip(recs, tot, start, offset) == start % tot

\* Mutant: the scan stops at the end of the list instead of wrapping.
RECURSIVE ScanNoWrap(_, _, _, _)
ScanNoWrap(recs, tot, start, offset) ==
    IF start + offset >= tot THEN None
    ELSE IF recs[start + offset].disabled
         THEN ScanNoWrap(recs, tot, start, offset + 1)
         ELSE start + offset

\* Mutant: with every record disabled the scan falls back on the cursor.
RECURSIVE ScanFallback(_, _, _, _)
ScanFallback(recs, tot, start, offset) ==
    IF offset >= tot THEN start
    ELSE LET i == (start + offset) % tot
         IN  IF recs[i].disabled
             THEN ScanFallback(recs, tot, start, offset + 1)
             ELSE i

RECURSIVE ScanFrom(_, _, _, _)
ScanFrom(recs, tot, start, offset) ==
    IF offset >= tot THEN None
    ELSE LET i == (start + offset) % tot
         IN  IF recs[i].disabled THEN ScanFrom(recs, tot, start, offset + 1)
             ELSE i

\* Mutant: the cursor is advanced without wrapping.
AdvanceCursorNoWrap(i, tot) == i + 1

\* Mutant: the cursor moves two places past the selected index.
AdvanceCursorSkip(i, tot) == (i + 2) % tot

\* Mutant: the cursor stays on the selected index.
AdvanceCursorStuck(i, tot) == i % tot

\* The cursor after index i was selected.
AdvanceCursor(i, tot) == (i + 1) % tot

\* The record after it was selected at time t.
Activated(r, t) == [r EXCEPT !.status = "active", !.last_used_at = t]

\* ---- _record_success / _record_failure on one record ----
\* Mutant: a success puts the key back into rotation.
SucceededReenables(r, t) ==
    [r EXCEPT !.status = "healthy", !.last_error = None,
              !.last_success_at = t, !.success_count = @ + 1,
              !.last_used = TRUE, !.last_used_at = t, !.disabled = FALSE]

\* Mutant: a success is recorded without being counted.
SucceededNoCount(r, t) ==
    [r EXCEPT !.status = "healthy", !.last_error = None,
              !.last_success_at = t,
              !.last_used = TRUE, !.last_used_at = t]

Succeeded(r, t) ==
    [r EXCEPT !.status = "healthy", !.last_error = None,
              !.last_success_at = t, !.success_count = @ + 1,
              !.last_used = TRUE, !.last_used_at = t]

\* Mutant: a failure is recorded but the key stays in rotation.
FailedNotDisabled(r, e, t) ==
    [r EXCEPT !.status = "failed", !.last_error = Str(e),
              !.last_failure_at = t, !.failure_count = @ + 1,
              !.last_used = FALSE]

Failed(r, e, t) ==
    [r EXCEPT !.status = "failed", !.last_error = Str(e),
              !.last_failure_at = t, !.failure_count = @ + 1,
              !.disabled = TRUE, !.last_used = FALSE]

\* Mutant: the previous holder keeps its flag.
ClearNothing(recs, lui, i) == recs

\* The records after _record_success cleared the previous holder's flag.
ClearPrevious(recs, lui, i) ==
    IF lui # None /\ lui # i
    THEN [recs EXCEPT ![lui].last_used = FALSE]
    ELSE recs

\* self._last_used_index after _record_failure on index i.
ForgetLastUsed(lui, i) == IF lui = i THEN None ELSE lui

\* ---- the lock and the loop of run_with_key ----
\* Mutant: leaving the block does not release the lock.
StillHeld(c) == c

\* The lock's holder after thread c left a `with self._lock` block.
Released(c) == Free

\* The exception classes fn can raise: Exception (and its subclasses), and
\* the BaseException classes outside it (KeyboardInterrupt, SystemExit,
\* GeneratorExit, asyncio.CancelledError).
Classes == { "Exception", "BaseException" }

\* Mutant: the except clause catches nothing.
CaughtNever(class) == FALSE

\* `except Exception`
Caught(class) == class = "Exception"

\* Mutant: only the last error is kept.
CapturedLast(errs, e) == << e >>

\* errors.append(exc)
Captured(errs, e) == Append(errs, e)

\* Mutant: the first failure ends the call.
AfterFailureGiveUp(it, tot) == "raise"

\* After `continue`: the next iteration, or the raise behind the loop once
\* range(len(self._records)) is used up.
\* Mutant: after a failure the loop is always entered again.
AfterFailureLoops(it, tot) == "loop"

AfterFailure(it, tot) == IF it < tot THEN "loop" ELSE "raise"

\* ---- available_key_count ----
available_key_count(recs) ==
    Cardinality({i \in DOMAIN recs : ~recs[i].disabled})

\* ---- construction ----
InitPool ==
    /\ total \in 1 .. MaxKeys
    /\ records = [i \in 0 .. (total - 1) |-> GeminiKeyRecord]
    /\ next_index = 0
    /\ last_used_index = None
    /\ lock = Free

InitThreads ==
    /\ pc = [c \in Callers |-> "idle"]
    /\ iter = [c \in Callers |-> 0]
    /\ index = [c \in Callers |-> None]
    /\ now = [c \in Callers |-> None]
    /\ errors = [c \in Callers |-> << >>]
    /\ result = [c \in Callers |-> None]
    /\ outcome = [c \in Callers |-> "none"]
    /\ raised = [c \in Callers |-> "none"]
    /\ attempts = [c \in Callers |-> << >>]
    /\ startCursor = 0
    /\ startDisabled = {}
    /\ startSuccess = [i \in 0 .. (total - 1) |-> 0]
    /\ callLog = << >>
    /\ selLog = << >>

\* The module globals of key_manager.py before any accessor call, with the
\* environment as the process found it.
InitSingleton(envs) ==
    /\ environ \in envs
    /\ manager = None
    /\ manager_lock = Free
    /\ built = << >>
    /\ spc = [c \in Callers |-> "idle"]
    /\ sop = [c \in Callers |-> "none"]
    /\ sarg = [c \in Callers |-> "none"]
    /\ sres = [c \in Callers |-> None]
    /\ sout = [c \in Callers |-> "none"]

\* A record's secret, before the record is built: no masked form yet.
InitMask(keys) ==
    /\ raw_key \in keys
    /\ masked_key = << >>
    /\ maskedKey = << >>

\* The pool is used directly, not through the accessors, and the secrets
\* are identified with their indexes.
InitAux ==
    /\ InitSingleton({ "E" }) /\ accessesLeft = 0
    /\ InitMask({ << >> })

Init == InitPool /\ InitThreads /\ InitAux /\ runsLeft = MaxRuns

InitSeq == InitPool /\ InitThreads /\ InitAux /\ runsLeft = MaxRunsSeq

\* ---- run_with_key ----
\* The call begins: errors = [], the for loop is entered.
RunWithKey(c) ==
    /\ pc[c] = "idle"
    /\ runsLeft > 0
    /\ runsLeft' = runsLeft - 1
    /\ pc' = [pc EXCEPT ![c] = "loop"]
    /\ errors' = [errors EXCEPT ![c] = << >>]
    /\ result' = [result EXCEPT ![c] = None]
    /\ outcome' = [outcome EXCEPT ![c] = "none"]
    /\ raised' = [raised EXCEPT ![c] = "none"]
    /\ attempts' = [attempts EXCEPT ![c] = << >>]
    /\ UNCHANGED << poolVars, lock, iter, index, now >>

\* Next iteration of the for loop: _activate_next_index takes the lock.
ActivateAcquire(c) ==
    /\ pc[c] = "loop"
    /\ iter[c] < total
    /\ lock = Free
    /\ lock' = c
    /\ iter' = [iter EXCEPT ![c] = @ + 1]
    /\ pc' = [pc EXCEPT ![c] = "activate"]
    /\ UNCHANGED << poolVars, index, now, errors, result, outcome, raised,
                    attempts, runsLeft >>

\* Body of _activate_next_index, then the lock is released on return.
\* None breaks out of the loop.
ActivateNextIndex(c) ==
    /\ pc[c] = "activate"
    /\ lock = c
    /\ LET i == ScanFrom(records, total, next_index, 0)
       IN  /\ index' = [index EXCEPT ![c] = i]
           /\ IF i = None
              THEN /\ pc' = [pc EXCEPT ![c] = "raise"]
                   /\ UNCHANGED << records, next_index >>
              ELSE /\ records' = [records EXCEPT ![i] = Activated(@, Now)]
                   /\ next_index' = AdvanceCursor(i, total)
                   /\ pc' = [pc EXCEPT ![c] = "fn"]
    /\ lock' = Released(c)
    /\ UNCHANGED << total, last_used_index, iter, now, errors, result,
                    outcome, raised, attempts, runsLeft >>

\* fn(key) returns; _record_success reads the time before taking the lock.
FnReturns(c) ==
    /\ pc[c] = "fn"
    /\ attempts' = [attempts EXCEPT ![c] = Append(@, index[c])]
    /\ result' = [result EXCEPT ![c] = index[c]]
    /\ now' = [now EXCEPT ![c] = Now]
    /\ pc' = [pc EXCEPT ![c] = "success_wait"]
    /\ UNCHANGED << poolVars, lock, iter, index, errors, outcome, raised,
                    runsLeft >>

\* fn(key) raises an Exception, which `except Exception` catches; the error
\* is appended and _record_failure reads the time.
FnRaises(c) ==
    /\ pc[c] = "fn"
    /\ Caught("Exception")
    /\ raised' = [raised EXCEPT ![c] = "Exception"]
    /\ attempts' = [attempts EXCEPT ![c] = Append(@, index[c])]
    /\ errors' = [errors EXCEPT ![c] = Captured(@, Exc(index[c]))]
    /\ now' = [now EXCEPT ![c] = Now]
    /\ pc' = [pc EXCEPT ![c] = "failure_wait"]
    /\ UNCHANGED << poolVars, lock, iter, index, result, outcome, runsLeft >>

RecordSuccessAcquire(c) ==
    /\ pc[c] = "success_wait"
    /\ lock = Free
    /\ lock' = c
    /\ pc' = [pc EXCEPT ![c] = "success"]
    /\ UNCHANGED << poolVars, iter, index, now, errors, result, outcome,
                    raised, attempts, runsLeft >>

\* Body of _record_success; run_with_key then returns result and its
\* frame (the loop counter, index, now) is gone.
RecordSuccess(c) ==
    /\ pc[c] = "success"
    /\ lock = c
    /\ LET i == index[c]
           cleared == ClearPrevious(records, last_used_index, i)
       IN  /\ records' = [cleared EXCEPT ![i] = Succeeded(@, now[c])]
           /\ last_used_index' = i
    /\ lock' = Released(c)
    /\ pc' = [pc EXCEPT ![c] = "idle"]
    /\ outcome' = [outcome EXCEPT ![c] = "returned"]
    /\ iter' = [iter EXCEPT ![c] = 0]
    /\ index' = [index EXCEPT ![c] = None]
    /\ now' = [now EXCEPT ![c] = None]
    /\ UNCHANGED << total, next_index, errors, result, raised, attempts,
                    runsLeft >>

RecordFailureAcquire(c) ==
    /\ pc[c] = "failure_wait"
    /\ lock = Free
    /\ lock' = c
    /\ pc' = [pc EXCEPT ![c] = "failure"]
    /\ UNCHANGED << poolVars, iter, index, now, errors, result, outcome,
                    raised, attempts, runsLeft >>

\* Body of _record_failure; `continue` goes back to the loop head, which
\* falls through to the raise once range(len(self._records)) is used up.
RecordFailure(c) ==
    /\ pc[c] = "failure"
    /\ lock = c
    /\ LET i == index[c]
       IN  /\ records' = [records EXCEPT ![i] = Failed(@, Exc(i), now[c])]
           /\ last_used_index' = ForgetLastUsed(last_used_index, i)
    /\ lock' = Released(c)
    /\ pc' = [pc EXCEPT ![c] = AfterFailure(iter[c], total)]
    /\ index' = [index EXCEPT ![c] = None]
    /\ now' = [now EXCEPT ![c] = None]
    /\ UNCHANGED << total, next_index, iter, errors, result, outcome,
                    raised, attempts, runsLeft >>

\* raise GeminiKeyExhaustedError(..., errors); the frame is gone.
RaiseExhausted(c) ==
    /\ pc[c] = "raise"
    /\ pc' = [pc EXCEPT ![c] = "idle"]
    /\ outcome' = [outcome EXCEPT ![c] = "exhausted"]
    /\ iter' = [iter EXCEPT ![c] = 0]
    /\ index' = [index EXCEPT ![c] = None]
    /\ UNCHANGED << poolVars, lock, now, errors, result, raised, attempts,
                    runsLeft >>

\* fn(key) raises an exception the except clause does not catch: it leaves
\* run_with_key, nothing is appended or recorded, the frame is gone.
FnPropagates(c) ==
    /\ pc[c] = "fn"
    /\ \E class \in Classes :
           /\ ~Caught(class)
           /\ raised' = [raised EXCEPT ![c] = class]
    /\ attempts' = [attempts EXCEPT ![c] = Append(@, index[c])]
    /\ pc' = [pc EXCEPT ![c] = "idle"]
    /\ outcome' = [outcome EXCEPT ![c] = "propagated"]
    /\ iter' = [iter EXCEPT ![c] = 0]
    /\ index' = [index EXCEPT ![c] = None]
    /\ UNCHANGED << poolVars, lock, now, errors, result, runsLeft >>

\* What the step of thread c adds to the log of selections: the cursor
\* _activate_next_index found and the index it returned, as long as no key
\* is disabled.
Observe(c) ==
    IF /\ pc[c] = "activate"
       /\ pc'[c] # "activate"
       /\ \A i \in Indexes : ~records[i].disabled
    THEN selLog' = Append(selLog, [cursor |-> next_index, index |-> index'[c]])
    ELSE IF pc[c] = "failure" /\ pc'[c] # "failure"
    THEN selLog' = << >>
    ELSE selLog' = selLog

\* Concurrent callers; the history of SpecSeq is not kept.
Next ==
    \E c \in Callers :
        \/ RunWithKey(c)
              /\ Observe(c) /\ UNCHANGED << histVars, auxVars >>
        \/ ActivateAcquire(c)
              /\ Observe(c) /\ UNCHANGED << histVars, auxVars >>
        \/ ActivateNextIndex(c)
              /\ Observe(c) /\ UNCHANGED << histVars, auxVars >>
        \/ FnReturns(c)
              /\ Observe(c) /\ UNCHANGED << histVars, auxVars >>
        \/ FnRaises(c)
              /\ Observe(c) /\ UNCHANGED << histVars, auxVars >>
        \/ RecordSuccessAcquire(c)
              /\ Observe(c) /\ UNCHANGED << histVars, auxVars >>
        \/ RecordSuccess(c)
              /\ Observe(c) /\ UNCHANGED << histVars, auxVars >>
        \/ RecordFailureAcquire(c)
              /\ Observe(c) /\ UNCHANGED << histVars, auxVars >>
        \/ RecordFailure(c)
              /\ Observe(c) /\ UNCHANGED << histVars, auxVars >>
        \/ RaiseExhausted(c)
              /\ Observe(c) /\ UNCHANGED << histVars, auxVars >>

Spec == Init /\ [][Next]_vars

\* ---- scheduling assumptions ----
\* A step of thread c that waits for nothing: fn returning or raising, a
\* critical section running to its end, the final raise.
Proceeds(c) ==
    /\ \/ ActivateNextIndex(c)
       \/ FnReturns(c)
       \/ FnRaises(c)
       \/ RecordSuccess(c)
       \/ RecordFailure(c)
       \/ RaiseExhausted(c)
    /\ Observe(c) /\ UNCHANGED << histVars, auxVars >>

\* Thread c is granted self._lock.
Granted(c) ==
    /\ \/ ActivateAcquire(c)
       \/ RecordSuccessAcquire(c)
       \/ RecordFailureAcquire(c)
    /\ Observe(c) /\ UNCHANGED << histVars, auxVars >>

\* Every fn call terminates, every thread keeps running, and a thread that
\* can take the lock again and again eventually gets it.
Fairness ==
    \A c \in Callers : WF_vars(Proceeds(c)) /\ SF_vars(Granted(c))

SpecFair == Spec /\ Fairness

\* Concurrent callers whose fn may raise any BaseException.
NextAnyRaise ==
    \/ Next
    \/ \E c \in Callers :
           FnPropagates(c) /\ Observe(c) /\ UNCHANGED << histVars, auxVars >>

SpecAnyRaise == Init /\ [][NextAnyRaise]_vars

\* ---- a single caller, its calls one after another, with their history ----
\* What the step of thread c adds to the history: the cursor and the
\* disabled keys a call finds when it begins, and the call when it ends.
History(c) ==
    IF pc[c] = "idle"
    THEN /\ startCursor' = next_index
         /\ startDisabled' = {i \in Indexes : records[i].disabled}
         /\ startSuccess' = [i \in Indexes |-> records[i].success_count]
         /\ callLog' = callLog
    ELSE IF pc'[c] = "idle"
    THEN /\ callLog' = Append(callLog,
                [ cursor |-> startCursor, disabled |-> startDisabled,
                  attempts |-> attempts[c], outcome |-> outcome'[c] ])
         /\ UNCHANGED << startCursor, startDisabled, startSuccess >>
    ELSE UNCHANGED histVars

NextSeq ==
    \/ RunWithKey(1) /\ History(1) /\ Observe(1)
       /\ UNCHANGED auxVars
    \/ ActivateAcquire(1) /\ History(1) /\ Observe(1)
       /\ UNCHANGED auxVars
    \/ ActivateNextIndex(1) /\ History(1) /\ Observe(1)
       /\ UNCHANGED auxVars
    \/ FnReturns(1) /\ History(1) /\ Observe(1)
       /\ UNCHANGED auxVars
    \/ FnRaises(1) /\ History(1) /\ Observe(1)
       /\ UNCHANGED auxVars
    \/ RecordSuccessAcquire(1) /\ History(1) /\ Observe(1)
       /\ UNCHANGED auxVars
    \/ RecordSuccess(1) /\ History(1) /\ Observe(1)
       /\ UNCHANGED auxVars
    \/ RecordFailureAcquire(1) /\ History(1) /\ Observe(1)
       /\ UNCHANGED auxVars
    \/ RecordFailure(1) /\ History(1) /\ Observe(1)
       /\ UNCHANGED auxVars
    \/ RaiseExhausted(1) /\ History(1) /\ Observe(1)
       /\ UNCHANGED auxVars

SpecSeq == InitSeq /\ [][NextSeq]_vars

\* ---- the process-wide singleton: _manager, _manager_lock ----
\* The keys argument of initialize_key_manager: "env" is keys=None (the
\* environment is read), "" is the empty list, the others are key lists.
KeyArgs == { "env", "", "A", "B" }

\* The keys the constructor is given: from_environment when keys is None.
KeysFor(arg) == IF arg = "env" THEN environ ELSE arg

\* Mutant: initialize_key_manager constructs whatever _manager holds.
NeedsInitAlways(m) == TRUE

\* `if _manager is None`, under _manager_lock.
NeedsInit(m) == m = None

\* get_key_manager: the unlocked `if _manager is None`, which either calls
\* initialize_key_manager() or goes on to `return _manager`.
GetKeyManager(c) ==
    /\ spc[c] = "idle"
    /\ accessesLeft > 0
    /\ accessesLeft' = accessesLeft - 1
    /\ sop' = [sop EXCEPT ![c] = "get"]
    /\ sres' = [sres EXCEPT ![c] = None]
    /\ sout' = [sout EXCEPT ![c] = "none"]
    /\ IF manager = None
       THEN /\ sarg' = [sarg EXCEPT ![c] = "env"]
            /\ spc' = [spc EXCEPT ![c] = "init_wait"]
       ELSE /\ sarg' = [sarg EXCEPT ![c] = "none"]
            /\ spc' = [spc EXCEPT ![c] = "get_return"]
    /\ UNCHANGED << environ, manager, manager_lock, built >>

\* get_key_manager: `return _manager`, a second read of the global.
GetReturn(c) ==
    /\ spc[c] = "get_return"
    /\ sres' = [sres EXCEPT ![c] = manager]
    /\ sout' = [sout EXCEPT ![c] = "returned"]
    /\ spc' = [spc EXCEPT ![c] = "idle"]
    /\ UNCHANGED << environ, manager, manager_lock, built, sop, sarg,
                    accessesLeft >>

\* initialize_key_manager(keys) is called.
InitializeKeyManager(c, k) ==
    /\ spc[c] = "idle"
    /\ accessesLeft > 0
    /\ accessesLeft' = accessesLeft - 1
    /\ sop' = [sop EXCEPT ![c] = "init"]
    /\ sarg' = [sarg EXCEPT ![c] = k]
    /\ sres' = [sres EXCEPT ![c] = None]
    /\ sout' = [sout EXCEPT ![c] = "none"]
    /\ spc' = [spc EXCEPT ![c] = "init_wait"]
    /\ UNCHANGED << environ, manager, manager_lock, built >>

\* `with _manager_lock` is entered.
ManagerLockAcquire(c) ==
    /\ spc[c] = "init_wait"
    /\ manager_lock = Free
    /\ manager_lock' = c
    /\ spc' = [spc EXCEPT ![c] = "init"]
    /\ UNCHANGED << environ, manager, built, sop, sarg, sres, sout,
                    accessesLeft >>

\* Body of initialize_key_manager.  The constructor raises ValueError for
\* no keys, which leaves the block (and the accessor) with _manager None.
\* The instances are numbered in the order of their construction.
InitializeBody(c) ==
    /\ spc[c] = "init"
    /\ manager_lock = c
    /\ IF NeedsInit(manager)
       THEN IF KeysFor(sarg[c]) = ""
            THEN /\ sout' = [sout EXCEPT ![c] = "ValueError"]
                 /\ UNCHANGED << manager, built, sres >>
            ELSE /\ built' = Append(built, KeysFor(sarg[c]))
                 /\ manager' = Len(built) + 1
                 /\ sres' = [sres EXCEPT ![c] = Len(built) + 1]
                 /\ sout' = [sout EXCEPT ![c] = "returned"]
       ELSE /\ sres' = [sres EXCEPT ![c] = manager]
            /\ sout' = [sout EXCEPT ![c] = "returned"]
            /\ UNCHANGED << manager, built >>
    /\ manager_lock' = Free
    /\ spc' = [spc EXCEPT ![c] = "idle"]
    /\ UNCHANGED << environ, sop, sarg, accessesLeft >>

runVars == << poolVars, lock, threadVars, runsLeft, histVars, selLog >>

NextSingleton ==
    \E c \in Callers :
        \/ GetKeyManager(c) /\ UNCHANGED << runVars, maskVars >>
        \/ GetReturn(c) /\ UNCHANGED << runVars, maskVars >>
        \/ \E k \in KeyArgs : InitializeKeyManager(c, k)
                               /\ UNCHANGED << runVars, maskVars >>
        \/ ManagerLockAcquire(c) /\ UNCHANGED << runVars, maskVars >>
        \/ InitializeBody(c) /\ UNCHANGED << runVars, maskVars >>

\* Threads reaching the pool through the accessors; no run_with_key call.
InitAccess ==
    /\ InitPool /\ total = 1
    /\ InitThreads
    /\ runsLeft = 0
    /\ InitSingleton({ "", "E" })
    /\ accessesLeft = MaxAccesses
    /\ InitMask({ << >> })

SpecSingleton == InitAccess /\ [][NextSingleton]_vars

\* ---- _mask_key and its report by get_statuses ----
\* The characters of a secret: an ordinary one and the two the masks are
\* made of.
Alphabet == { "a", "*", "." }

Secrets == UNION { [1 .. n -> Alphabet] : n \in 1 .. MaxKeyLen }

\* Python's key[:n] and key[-n:] (n >= 1).
Prefix(key, n) == SubSeq(key, 1, IF n < Len(key) THEN n ELSE Len(key))
Suffix(key, n) ==
    SubSeq(key, IF n < Len(key) THEN Len(key) - n + 1 ELSE 1, Len(key))

_mask_key(key) ==
    IF Len(key) <= 10
    THEN Prefix(key, 2) \o << "*", "*", "*" >> \o Suffix(key, 2)
    ELSE Prefix(key, 6) \o << ".", ".", "." >> \o Suffix(key, 4)

\* GeminiKeyRecord(raw_key=key, masked_key=self._mask_key(key))
BuildRecord ==
    /\ masked_key = << >>
    /\ masked_key' = _mask_key(raw_key)
    /\ UNCHANGED << raw_key, maskedKey >>

\* get_statuses: "maskedKey": record.masked_key
GetStatuses ==
    /\ masked_key # << >>
    /\ maskedKey' = masked_key
    /\ UNCHANGED << raw_key, masked_key >>

NextMask ==
    \/ BuildRecord /\ UNCHANGED << runVars, singletonVars >>
    \/ GetStatuses /\ UNCHANGED << runVars, singletonVars >>

InitMasking ==
    /\ InitPool /\ total = 1
    /\ InitThreads
    /\ runsLeft = 0
    /\ InitSingleton({ "E" }) /\ accessesLeft = 0
    /\ InitMask(Secrets)

SpecMask == InitMasking /\ [][NextMask]_vars

\* ======================= properties =======================

IsPrefix(a, b) ==
    /\ Len(a) <= Len(b)
    /\ \A k \in 1 .. Len(a) : a[k] = b[k]

\* The indexes start, start+1, ... taken cyclically, without those of dis.
Rotation(start) == [k \in 1 .. total |-> (start + k - 1) % total]
InRotation(dis, i) == i \notin dis
ExpectedOrder(start, dis) ==
    LET keep(i) == InRotation(dis, i) IN SelectSeq(Rotation(start), keep)

\* A logged call whose work succeeded on the first attempt.
FirstTry(e) == e.outcome = "returned" /\ Len(e.attempts) = 1

\* The total calls callLog[k .. k+total-1] exist, begin with no key
\* disabled, and each succeeded on its first attempt.
FairWindow(k) ==
    /\ k + total - 1 <= Len(callLog)
    /\ callLog[k].disabled = {}
    /\ \A j \in 0 .. (total - 1) : FirstTry(callLog[k + j])

\* C1: round-robin fairness. With no key disabled, any N calls made one
\* after another that each succeed on the first attempt use every key
\* exactly once, in ascending cyclic order from the cursor the first of them
\* found.
C1_RoundRobinFairness ==
    \A k \in 1 .. Len(callLog) :
        FairWindow(k) =>
            /\ \A j \in 0 .. (total - 1) :
                   callLog[k + j].attempts[1] = (callLog[k].cursor + j) % total
            /\ { callLog[k + j].attempts[1] : j \in 0 .. (total - 1) } = Indexes

\* Three keys, and a full round that began at cursor 1.
C1_Witness ==
    /\ total = 3
    /\ Len(callLog) = 4
    /\ FairWindow(2)
    /\ callLog[2].cursor = 1

\* C2: permanent disablement. Once _record_failure ran on an index (its
\* failure_count is positive), no later _activate_next_index returns it.
C2_FailedNeverSelected ==
    [][ \A c \in Callers :
            (pc[c] = "activate" /\ pc'[c] = "fn") =>
                records[index'[c]].failure_count = 0 ]_vars

\* Thread d failed on key 0 and went on to key 1; thread c, calling
\* with the cursor back on 0 or concurrently, got key 1 as its first key.
C2_Witness ==
    /\ total = 2
    /\ \E c, d \in Callers :
           /\ c # d
           /\ attempts[d] = << 0, 1 >>
           /\ records[0].failure_count = 1
           /\ pc[c] = "fn" /\ iter[c] = 1 /\ index[c] = 1

\* C3: exhaustion only when nothing is left. A call that raises (or is
\* about to raise) GeminiKeyExhaustedError finds every key disabled; if
\* some key never failed no call ends exhausted.
C3_ExhaustedOnlyWhenEmpty ==
    /\ \A c \in Callers :
           (pc[c] = "raise" \/ outcome[c] = "exhausted") =>
               available_key_count(records) = 0
    /\ (\E i \in Indexes : records[i].failure_count = 0) =>
           \A c \in Callers : outcome[c] # "exhausted"

\* A call raised although it tried only some of the keys itself: the other
\* thread disabled the rest while the two calls shared the cursor.
C3_Witness ==
    \E c, d \in Callers :
        /\ c # d
        /\ outcome[c] = "exhausted"
        /\ Len(attempts[c]) < total
        /\ Len(attempts[c]) > 0
        /\ Len(attempts[d]) > 0

\* C4: failover order in one call, single caller. The call gives fn the
\* keys that were not disabled when it began, in cyclic order from the
\* cursor it found; it stops at the first success and returns that key's
\* result; it raises only after the whole order failed.
C4_FailoverOrder ==
    LET a == attempts[1]
        expected == ExpectedOrder(startCursor, startDisabled)
    IN  /\ IsPrefix(a, expected)
        /\ outcome[1] = "returned" =>
               /\ a # << >>
               /\ result[1] = a[Len(a)]
               /\ errors[1] = [k \in 1 .. (Len(a) - 1) |-> Exc(a[k])]
        /\ outcome[1] = "exhausted" => a = expected

\* Pool [good, bad] after one success on good: bad is tried, fails, and the
\* wrap-around reaches good, whose result is returned.
C4_Witness ==
    /\ total = 2
    /\ Len(callLog) = 2
    /\ FirstTry(callLog[1]) /\ callLog[1].attempts = << 0 >>
    /\ startCursor = 1
    /\ attempts[1] = << 1, 0 >>
    /\ outcome[1] = "returned"
    /\ result[1] = 0

\* C5: content of the exhaustion error, single caller. The error list has
\* one entry per call of fn, the k-th being the failure of the k-th key
\* tried; when all N keys failed in the one call, every key is disabled
\* with status failed and available_key_count is 0.
C5_ExhaustedErrors ==
    outcome[1] = "exhausted" =>
        /\ Len(errors[1]) = Len(attempts[1])
        /\ \A k \in 1 .. Len(errors[1]) : errors[1][k] = Exc(attempts[1][k])
        /\ Len(errors[1]) = total =>
               /\ \A i \in Indexes :
                      records[i].disabled /\ records[i].status = "failed"
               /\ available_key_count(records) = 0

\* Every key of a fresh pool of three failed in the first call.
C5_Witness ==
    /\ total = 3
    /\ Len(callLog) = 1
    /\ outcome[1] = "exhausted"
    /\ errors[1] = << Exc(0), Exc(1), Exc(2) >>

\* C6: in every reachable state, under any interleaving, at most one
\* record has last_used = TRUE.
C6_AtMostOneLastUsed ==
    Cardinality({i \in Indexes : records[i].last_used}) <= 1

\* Key 0 succeeded before and lost the flag to key 1.
C6_Witness ==
    /\ total >= 2
    /\ records[0].success_count = 1 /\ ~records[0].last_used
    /\ records[1].last_used
    /\ last_used_index = 1

\* C7: the status failed is absorbing: once a record's status is failed it
\* never becomes idle, active or healthy again.
C7_FailedAbsorbing ==
    [][ \A i \in Indexes :
            records[i].status = "failed" => records'[i].status = "failed" ]_vars

\* C8: disabled is monotonic: no step changes a record's disabled from
\* TRUE to FALSE, so available_key_count never increases.
C8_DisabledMonotonic ==
    [][ /\ \A i \in Indexes : records[i].disabled => records'[i].disabled
        /\ available_key_count(records') <= available_key_count(records)
      ]_vars

\* A success was recorded on a key after another caller's failure had
\* disabled it: the key stays disabled.
C8_Witness ==
    \E i \in Indexes :
        /\ records[i].disabled
        /\ records[i].failure_count = 1
        /\ records[i].success_count = 1
        /\ records[i].status = "healthy"

\* The positions of run_with_key inside a `with self._lock` block.
Locked == { "activate", "success", "failure" }

\* C9: the lock is never held while fn runs. A thread holds the lock
\* exactly while it is inside a locked block, whose body needs nothing from
\* any other thread; a thread inside fn (or waiting) does not hold it.
C9_NoLockDuringWork ==
    /\ \A c \in Callers : pc[c] = "fn" => lock # c
    /\ \A c \in Callers : lock = c <=> pc[c] \in Locked
    /\ lock \in Callers \cup { Free }

\* Thread c is inside fn while thread d holds the lock for its own
\* bookkeeping.
C9_Witness ==
    \E c, d \in Callers :
        /\ c # d
        /\ pc[c] = "fn"
        /\ lock = d
        /\ pc[d] \in Locked

\* Thread c executes the body of _record_failure in this step.
RecordsFailure(c) == pc[c] = "failure" /\ pc'[c] # "failure"

\* C10 as stated: every execution of _record_failure lowers
\* available_key_count by exactly one.
C10_EveryFailureDecrements ==
    [][ \A c \in Callers :
            RecordsFailure(c) =>
                available_key_count(records') =
                    available_key_count(records) - 1 ]_vars

\* C10 amended: _record_failure lowers available_key_count by exactly one
\* when the key was not yet disabled, and leaves it unchanged when another
\* caller's failure on the same key had already disabled it.
C10_FirstFailureDecrements ==
    [][ \A c \in Callers :
            RecordsFailure(c) =>
                available_key_count(records') =
                    available_key_count(records)
                        - (IF records[index[c]].disabled THEN 0 ELSE 1) ]_vars

\* Three failures were recorded on two keys, two of them by two callers on
\* key 0: the count went down by two, not three.
C10_Witness ==
    /\ total = 2
    /\ records[0].failure_count = 2
    /\ records[1].failure_count = 1
    /\ available_key_count(records) = 0

\* C11: process-wide singleton. For every interleaving of concurrent
\* get_key_manager and initialize_key_manager calls at most one instance
\* is ever constructed, _manager holds it from then on, and every caller
\* that gets an instance gets that one, whatever keys it passed.
C11_Singleton ==
    /\ Len(built) <= 1
    /\ manager = (IF built = << >> THEN None ELSE 1)
    /\ \A c \in Callers :
           sout[c] = "returned" => (sres[c] = 1 /\ manager = 1)

\* Both threads found _manager None at the same time, one in
\* get_key_manager and one in initialize_key_manager("B"); the environment's
\* keys won and both hold the one instance.
C11_Witness ==
    /\ built = << "E" >>
    /\ \E c, d \in Callers :
           /\ sop[c] = "get" /\ sarg[c] = "env"
           /\ sop[d] = "init" /\ sarg[d] = "B"
           /\ sout[c] = "returned" /\ sout[d] = "returned"
           /\ sres[c] = sres[d]
           /\ accessesLeft = MaxAccesses - 2

\* The keys whose failure thread c has captured and recorded so far.
RecordedFailures(c) ==
    LET n == IF pc[c] \in { "failure_wait", "failure" }
             THEN Len(errors[c]) - 1 ELSE Len(errors[c])
    IN  { errors[c][k] : k \in 1 .. n }

\* The calls of fn by thread c that did not return a value.
FailedAttempts(c) ==
    LET n == IF pc[c] \in { "success_wait", "success" }
                \/ outcome[c] = "returned"
             THEN Len(attempts[c]) - 1 ELSE Len(attempts[c])
    IN  SubSeq(attempts[c], 1, n)

Selects(c) == pc[c] = "activate" /\ pc'[c] # "activate"

\* C13: the cursor is always an index of the pool. Construction sets it to
\* 0; a selection that finds index i leaves it at (i + 1) mod size, one
\* that finds nothing leaves it unchanged, and no other step touches it.
C13_CursorInRange ==
    /\ next_index = 0
    /\ [][ /\ next_index' \in 0 .. (total - 1)
           /\ \A c \in Callers :
                  Selects(c) =>
                      next_index' = IF index'[c] = None THEN next_index
                                    ELSE (index'[c] + 1) % total
           /\ (\A c \in Callers : ~Selects(c)) => next_index' = next_index
         ]_vars

\* The last index of a pool of three was selected and the cursor wrapped.
C13_Witness ==
    /\ total = 3
    /\ next_index = 0
    /\ \E c \in Callers : pc[c] = "fn" /\ index[c] = 2

\* The contiguous substrings of s that are longer than n.
LongSubstrings(s, n) ==
    { SubSeq(s, i, j) : << i, j >> \in
          { p \in (1 .. Len(s)) \X (1 .. Len(s)) : p[2] - p[1] + 1 > n } }

\* Sequence t occurs in sequence s as a contiguous substring.
Occurs(t, s) ==
    \E i \in 1 .. (Len(s) - Len(t) + 1) : SubSeq(s, i, i + Len(t) - 1) = t

\* The boundary allowance: the longest run of the secret a mask may show.
Allowance(key) == IF Len(key) <= 10 THEN 2 ELSE 6

\* The reported mask is not the secret and shows no substring of it longer
\* than the allowance.
NoLeak ==
    /\ maskedKey # raw_key
    /\ \A t \in LongSubstrings(raw_key, Allowance(raw_key)) :
           ~Occurs(t, maskedKey)

\* C14 as stated: for every secret over an alphabet that includes '*' and
\* '.', the mask get_statuses reports is never the secret and contains no
\* substring of it longer than the boundary allowance.
C14_MaskNeverLeaks == maskedKey # << >> => NoLeak

\* The single caller's last run_with_key call returned a value.
Returned == pc[1] = "idle" /\ outcome[1] = "returned"

\* C15: after a call that returned (single caller), the key that produced
\* the value is healthy with no last error, has one success more than when
\* the call began, and is the only record flagged last used; every other
\* key that succeeded before and never failed is healthy and not flagged.
C15_SuccessBookkeeping ==
    Returned =>
        LET k == result[1]
        IN  /\ k \in Indexes
            /\ records[k].status = "healthy"
            /\ records[k].last_error = None
            /\ records[k].success_count = startSuccess[k] + 1
            /\ \A i \in Indexes : records[i].last_used <=> i = k
            /\ last_used_index = k
            /\ \A i \in Indexes \ {k} :
                   (records[i].success_count > 0 /\ ~records[i].disabled)
                       => /\ records[i].status = "healthy"
                          /\ ~records[i].last_used

\* Key 0 succeeded in an earlier call and key 1 produced the latest value.
C15_Witness ==
    /\ Returned
    /\ total = 2
    /\ result[1] = 1
    /\ records[0].success_count = 1
    /\ ~records[0].disabled
    /\ startSuccess[1] = 0

\* Every record of the pool is disabled.
AllDisabled == \A i \in Indexes : records[i].disabled

\* C16: with every record disabled, _activate_next_index returns None and
\* leaves the cursor, every record and the last-used index as they were; a
\* call that begins on such a pool never invokes fn, changes nothing in the
\* pool at any of its steps, and ends with GeminiKeyExhaustedError carrying
\* an empty error list.
C16_DisabledPoolUntouched ==
    [][ /\ (Selects(1) /\ AllDisabled) =>
               /\ index'[1] = None
               /\ poolVars' = poolVars
        /\ (pc[1] # "idle" /\ startDisabled = Indexes) =>
               /\ poolVars' = poolVars
               /\ pc'[1] # "fn"
               /\ attempts'[1] = << >>
               /\ errors'[1] = << >>
               /\ pc'[1] = "idle" => outcome'[1] = "exhausted"
      ]_vars

\* A call that began on a fully disabled three-key pool has ended.
C16_Witness ==
    /\ total = 3
    /\ startDisabled = Indexes
    /\ pc[1] = "idle"
    /\ outcome[1] = "exhausted"
    /\ errors[1] = << >>
    /\ attempts[1] = << >>

\* The windows of selLog: runs of at most `total` consecutive selections.
Windows ==
    { << a, b >> \in (1 .. Len(selLog)) \X (1 .. Len(selLog)) :
          a <= b /\ b - a + 1 <= total }

\* C17: while no key is disabled, `total` consecutive selections by any mix
\* of concurrent callers, with successes but no failure recorded between
\* them, return every index exactly once, in ascending cyclic order from
\* the cursor the first of them found; and no two selections of such a run
\* find the same cursor.
C17_AtomicFairSelection ==
    \A w \in Windows :
        LET a == w[1]
            b == w[2]
        IN  /\ \A k \in a .. b :
                   /\ selLog[k].cursor = (selLog[a].cursor + (k - a)) % total
                   /\ selLog[k].index = selLog[k].cursor
            /\ \A j, k \in a .. b :
                   j # k => /\ selLog[j].cursor # selLog[k].cursor
                            /\ selLog[j].index # selLog[k].index
            /\ (b - a + 1 = total) =>
                   { selLog[k].index : k \in a .. b } = Indexes

\* Two callers hold a key each, selected one after the other.
C17_Witness ==
    /\ total = 2
    /\ Len(selLog) = 2
    /\ pc[1] = "fn"
    /\ pc[2] = "fn"
    /\ index[1] # index[2]

\* Thread c is inside a run_with_key call.
Running(c) == pc[c] # "idle"

\* The last call of thread c returned a value or raised the exhaustion error.
Finished(c) == pc[c] = "idle" /\ outcome[c] \in { "returned", "exhausted" }

\* C18: if every fn call terminates and the lock is granted fairly, every
\* run_with_key call ends, by returning a value or by raising
\* GeminiKeyExhaustedError, and it invokes fn at most `total` times, however
\* many other callers run.
C18_Termination ==
    /\ [](\A c \in Callers : Len(attempts[c]) <= total /\ iter[c] <= total)
    /\ \A c \in Callers : Running(c) ~> Finished(c)

\* A call that invoked fn once for each of three keys has ended while the
\* other thread was inside a call of its own.
C18_Witness ==
    \E c, d \in Callers :
        /\ c # d
        /\ total = 3
        /\ Finished(c)
        /\ Len(attempts[c]) = 3
        /\ Running(d)

\* The indexes thread c has passed to fn in its current call, the one fn
\* is working on included.
Passed(c) ==
    IF pc[c] = "fn" THEN Append(attempts[c], index[c]) ELSE attempts[c]

\* C19: within one run_with_key call the indexes passed to fn are pairwise
\* distinct, whatever other concurrent calls do to the shared cursor.
C19_NoKeyTwice ==
    \A c \in Callers :
        \A j, k \in 1 .. Len(Passed(c)) :
            j # k => Passed(c)[j] # Passed(c)[k]

\* A call tried key 0 and then key 2, another call having taken key 1.
C19_Witness ==
    \E c \in Callers :
        /\ total = 3
        /\ pc[c] = "fn"
        /\ Passed(c) = << 0, 2 >>

\* C20: no disabled record is flagged last used, and _last_used_index never
\* points at a disabled record, in any reachable state of concurrent calls.
C20_DisabledNeverLastUsed ==
    \A i \in Indexes :
        records[i].disabled =>
            /\ ~records[i].last_used
            /\ last_used_index # i

====
